---------------------------- MODULE Spec2Model ----------------------------
(***************************************************************************)
(* BillCheck AI (billcheck_ai.py): one Streamlit script run per user       *)
(* interaction.  A run loads the summarizer, reads the two upload widgets, *)
(* extracts text, and - when the text is non-empty and the button was      *)
(* pressed - summarizes the text chunk by chunk, validates tax rates and   *)
(* GSTINs and renders the summary into a PDF.                              *)
(*                                                                         *)
(* A Python str is a sequence of one-character strings.  The character     *)
(* U+274C (the cross mark of the two fixed messages) is written "U+274C".  *)
(***************************************************************************)
EXTENDS Integers, Sequences, FiniteSets, TLC

VARIABLES
    pc,            \* position of the script (or of the function under study)
    run,           \* number of the current script run
    summarizer,    \* "loaded" | "none": module global set at lines 69-73
    pdf_file,      \* "none" | "ok" | "bad": value of the PDF uploader
    image_file,    \* "none" | "ok" | "bad": value of the image uploader
    button,        \* what st.button returns in this run
    disk_ok,       \* whether billcheck_summary.pdf can be written and read
    text,          \* main script: text
    chunks,        \* generate_summary: chunks
    idx,           \* generate_summary: number of chunks already iterated
    summary,       \* generate_summary: summary (the accumulator)
    outcomes,      \* per iterated chunk: what happened to it
    main_summary,  \* main script: summary
    fake_taxes,    \* main script: fake_taxes
    gstins,        \* main script: gstins
    base64_pdf,    \* main script: base64_pdf
    log            \* stages executed in this run, in order

vars == <<pc, run, summarizer, pdf_file, image_file, button, disk_ok, text,
          chunks, idx, summary, outcomes, main_summary, fake_taxes, gstins,
          base64_pdf, log>>

-----------------------------------------------------------------------------
(* Characters *)

Digits == {"0","1","2","3","4","5","6","7","8","9"}

Upper == {"A","B","C","D","E","F","G","H","I","J","K","L","M",
          "N","O","P","Q","R","S","T","U","V","W","X","Y","Z"}

Lower == {"a","b","c","d","e","f","g","h","i","j","k","l","m",
          "n","o","p","q","r","s","t","u","v","w","x","y","z"}

\* \w of the re module
WordChars == Digits \cup Upper \cup Lower \cup {"_"}

\* what str.strip() removes
Whitespace == {" ", "\n", "\t", "\r"}

\* characters the core font of FPDF (latin-1) cannot encode
NonLatin1 == {"U+274C"}

\* a name not yet bound in this run
Unset == <<"<unset>">>

UnsetList == <<Unset>>

RECURSIVE Flatten(_)
Flatten(ss) == IF ss = <<>> THEN <<>> ELSE Head(ss) \o Flatten(Tail(ss))

-----------------------------------------------------------------------------
(* Regular-expression helpers *)

WordAt(t, i) == i \in 1..Len(t) /\ t[i] \in WordChars

\* \b at the position just before character i (i in 1..Len(t)+1)
Boundary(t, i) == WordAt(t, i - 1) # WordAt(t, i)

ClassAt(t, i, cls) == i \in 1..Len(t) /\ t[i] \in cls

-----------------------------------------------------------------------------
(* Tax-rate validator *)

valid_rates == { <<"0","%">>, <<"5","%">>, <<"1","2","%">>,
                 <<"1","8","%">>, <<"2","8","%">> }

\* r'\b\d{1,2}%\b' tried at position i: the index just past the match, or
\* 0 when it does not match there.  \d{1,2} is greedy: two digits first.
TaxMatchEnd(t, i) ==
    IF Boundary(t, i) /\ ClassAt(t, i, Digits)
    THEN IF /\ ClassAt(t, i + 1, Digits)
            /\ ClassAt(t, i + 2, {"%"})
            /\ Boundary(t, i + 3)
         THEN i + 3
         ELSE IF ClassAt(t, i + 1, {"%"}) /\ Boundary(t, i + 2)
              THEN i + 2
              ELSE 0
    ELSE 0

\* the scan of re.findall: the first position from pos on where the
\* pattern matches (Len(t) + 1 when there is none)
NextTaxMatch(t, pos) ==
    CHOOSE i \in pos..(Len(t) + 1) :
        /\ i = Len(t) + 1 \/ TaxMatchEnd(t, i) # 0
        /\ \A j \in pos..(i - 1) : TaxMatchEnd(t, j) = 0

\* re.findall: leftmost non-overlapping matches from position pos on
RECURSIVE FindAllTax(_, _)
FindAllTax(t, pos) ==
    LET i == NextTaxMatch(t, pos) IN
    IF i > Len(t) THEN <<>>
    ELSE <<SubSeq(t, i, TaxMatchEnd(t, i) - 1)>>
             \o FindAllTax(t, TaxMatchEnd(t, i))

NotValidRate(rate) == rate \notin valid_rates

detect_fake_tax_rates(t) == SelectSeq(FindAllTax(t, 1), NotValidRate)

-----------------------------------------------------------------------------
(* Tax-ID validator *)

SENTINEL == <<"U+274C"," ","N","o"," ","v","a","l","i","d"," ","G","S","T","I","N"," ","f","o","u","n","d"," ","o","r"," ","p","o","s","s","i","b","l","y"," ","f","a","k","e"," ","f","o","r","m","a","t",".">>

GstinLen == 15

\* the character class of position k of
\* r'\b[0-9]{2}[A-Z]{5}[0-9]{4}[A-Z][1-9A-Z]Z[0-9A-Z]\b'
GstinClass_AnyThirteenth(k) ==
    IF k \in 1..2 THEN Digits
    ELSE IF k \in 3..7 THEN Upper
    ELSE IF k \in 8..11 THEN Digits
    ELSE IF k = 12 THEN Upper
    ELSE IF k = 14 THEN {"Z"}
    ELSE Digits \cup Upper

GstinClass(k) ==
    IF k \in 1..2 THEN Digits
    ELSE IF k \in 3..7 THEN Upper
    ELSE IF k \in 8..11 THEN Digits
    ELSE IF k = 12 THEN Upper
    ELSE IF k = 13 THEN (Digits \ {"0"}) \cup Upper
    ELSE IF k = 14 THEN {"Z"}
    ELSE Digits \cup Upper

GstinMatchAt(t, i) ==
    /\ Boundary(t, i)
    /\ \A k \in 1..GstinLen : ClassAt(t, i + k - 1, GstinClass(k))
    /\ Boundary(t, i + GstinLen)

NextGstinMatch(t, pos) ==
    CHOOSE i \in pos..(Len(t) + 1) :
        /\ i = Len(t) + 1 \/ GstinMatchAt(t, i)
        /\ \A j \in pos..(i - 1) : ~GstinMatchAt(t, j)

RECURSIVE FindAllGstin(_, _)
FindAllGstin(t, pos) ==
    LET i == NextGstinMatch(t, pos) IN
    IF i > Len(t) THEN <<>>
    ELSE <<SubSeq(t, i, i + GstinLen - 1)>>
             \o FindAllGstin(t, i + GstinLen)

check_gstin_validity(t) ==
    LET found == FindAllGstin(t, 1) IN
    IF found # <<>> THEN found ELSE <<SENTINEL>>

-----------------------------------------------------------------------------
(* Chunking and summarization *)

CHUNK_SIZE == 400

MAX_TOTAL == 1200

MIN_CHUNK == 30

PLACEHOLDER == <<"[","E","r","r","o","r"," ","s","u","m","m","a","r","i","z","i","n","g"," ","t","h","i","s"," ","p","a","r","t","]">>

NO_SUMMARY == <<"N","o"," ","s","u","m","m","a","r","y"," ","g","e","n","e","r","a","t","e","d",".">>

UNAVAILABLE == <<"U+274C"," ","S","u","m","m","a","r","i","z","e","r"," ","m","o","d","e","l"," ","c","o","u","l","d"," ","n","o","t"," ","b","e"," ","l","o","a","d","e","d",".">>

BLANK_LINE == <<"\n","\n">>

Min(a, b) == IF a < b THEN a ELSE b

\* range(start, stop, step) as a list
RECURSIVE Range(_, _, _)
Range(start, stop, step) ==
    IF start >= stop THEN <<>>
    ELSE <<start>> \o Range(start + step, stop, step)

\* t[a:b] for 0 <= a <= b: the slice is clamped to the string
Slice(t, a, b) == SubSeq(t, a + 1, Min(b, Len(t)))

Chunks_NoCap(t) ==
    LET starts == Range(0, Len(t), CHUNK_SIZE) IN
    [k \in 1..Len(starts) |-> Slice(t, starts[k], starts[k] + CHUNK_SIZE)]

\* [text[i:i+400] for i in range(0, min(len(text), 1200), 400)]
Chunks(t) ==
    LET starts == Range(0, Min(Len(t), MAX_TOTAL), CHUNK_SIZE) IN
    [k \in 1..Len(starts) |-> Slice(t, starts[k], starts[k] + CHUNK_SIZE)]

\* index of the first character strip() keeps (Len(s) + 1 when none)
FirstNonSpace(s) ==
    CHOOSE i \in 1..(Len(s) + 1) :
        /\ i = Len(s) + 1 \/ s[i] \notin Whitespace
        /\ \A j \in 1..(i - 1) : s[j] \in Whitespace

\* index of the last character strip() keeps (0 when none)
LastNonSpace(s) ==
    CHOOSE i \in 0..Len(s) :
        /\ i = 0 \/ s[i] \notin Whitespace
        /\ \A j \in (i + 1)..Len(s) : s[j] \in Whitespace

\* str.strip()
Strip(s) == SubSeq(s, FirstNonSpace(s), LastNonSpace(s))

Skipped_AtThirty(chunk) == Len(Strip(chunk)) <= MIN_CHUNK

\* len(chunk.strip()) < 30: the chunk is passed over
Skipped(chunk) == Len(Strip(chunk)) < MIN_CHUNK

SummaryReturn_NoStrip(s) == IF s # <<>> THEN s ELSE NO_SUMMARY

\* return summary.strip() or "No summary generated."
SummaryReturn(s) == IF Strip(s) # <<>> THEN Strip(s) ELSE NO_SUMMARY

-----------------------------------------------------------------------------
(* Report renderer *)

RECURSIVE SplitLines(_)
\* summary_text.split('\n')
SplitLines(s) ==
    LET nl == {i \in 1..Len(s) : s[i] = "\n"} IN
    IF nl = {} THEN <<s>>
    ELSE LET i == CHOOSE j \in nl : \A k \in nl : j <= k IN
         <<SubSeq(s, 1, i - 1)>> \o SplitLines(SubSeq(s, i + 1, Len(s)))

\* FPDF with the core font "Arial" encodes the page as latin-1 and raises
\* on any other character; pdf.output / open raise when the file cannot be
\* written or read back.
CreatePdfRaises(summary_text, disk) ==
    \/ \E i \in 1..Len(summary_text) : summary_text[i] \in NonLatin1
    \/ ~disk

\* the encoded report: one multi_cell per line of the summary
create_pdf(summary_text) == SplitLines(summary_text)

-----------------------------------------------------------------------------
(* Inputs *)

MaxRuns == 2

MaxTaxTokens == 3

MaxPad == 1

MaxChunkTextLen == 1300

Rep(c, n) == [i \in 1..n |-> c]

SeqsUpTo(S, n) == UNION {[1..m -> S] : m \in 0..n}

\* texts for the tax-rate validator: up to MaxTaxTokens pieces
TaxTokens == { <<"1","7","%">>, <<"5","%">>, <<"1","8","%">>, <<"9","%">>,
               <<" ">>, <<"a">>, <<"1">>, <<"%">> }

TaxTexts == {Flatten(ss) : ss \in SeqsUpTo(TaxTokens, MaxTaxTokens)} \ {<<>>}

\* texts for the tax-ID validator: a well-formed identifier with one
\* position overwritten, padded, possibly followed by a second identifier
G1 == <<"2","2","A","A","A","A","A","0","0","0","0","A","1","Z","5">>

G2 == <<"2","9","A","B","C","D","E","1","2","3","4","F","Z","Z","0">>

MutChars == {"0", "2", "A", "Z", "a", " ", "_"}

PadChars == {" ", "a", "2"}

GstinBodies == {[G1 EXCEPT ![p] = c] : p \in 1..GstinLen, c \in MutChars}

Pads == SeqsUpTo(PadChars, MaxPad)

GstinTexts ==
    {pre \o b \o post : pre \in Pads, b \in GstinBodies, post \in Pads}
    \cup
    {b \o sep \o g \o post :
            b \in GstinBodies, sep \in Pads, g \in {G1, G2}, post \in Pads}

\* texts for the chunker: every length up to MaxChunkTextLen, the character
\* at a position determined by the position
CharOf(p, k) ==
    LET d == (p * k) % 11 IN
    IF d = 10 THEN " "
    ELSE <<"0","1","2","3","4","5","6","7","8","9">>[d + 1]

ChunkTexts ==
    {[p \in 1..n |-> CharOf(p, k)] : n \in 1..MaxChunkTextLen, k \in {1, 3}}

\* texts for the summarizer: a run of "x", a run of blanks, a run of "y"
SummaryTexts ==
    {Rep("x", a) \o Rep(" ", b) \o Rep("y", c) :
        a \in {0, 29, 30, 400, 430}, b \in {0, 1, 371, 400},
        c \in {0, 29, 30, 500}} \ {<<>>}

\* what the summarization pipeline does with a chunk: raise, or return text
SummarizerResults ==
    { [kind |-> "fail", out |-> <<>>],
      [kind |-> "ok", out |-> <<"S","u","m",".">>],
      [kind |-> "ok", out |-> <<" ","o","k","\n">>] }

E2E_TEXT == <<"T","o","t","a","l",":"," ","1","8","%"," ","t","a","x",","," ","G","S","T","I","N"," ","2","2","A","A","A","A","A","0","0","0","0","A","1","Z","5">>

\* texts an uploaded bill can yield in a whole run
RunTexts ==
    { <<>>, <<"1","7","%">>, E2E_TEXT, Rep("x", 30),
      Rep("x", 430) \o Rep(" ", 400) \o Rep("y", 30) }

-----------------------------------------------------------------------------
(* The script run *)

Event(stage, n) == [stage |-> stage, n |-> n]

Fresh(p, r) ==
    /\ pc = p
    /\ run = r
    /\ summarizer = "none"
    /\ pdf_file = "none"
    /\ image_file = "none"
    /\ button = FALSE
    /\ disk_ok = TRUE
    /\ text = <<>>
    /\ chunks = <<>>
    /\ idx = 0
    /\ summary = <<>>
    /\ outcomes = <<>>
    /\ main_summary = Unset
    /\ fake_taxes = UnsetList
    /\ gstins = UnsetList
    /\ base64_pdf = UnsetList
    /\ log = <<>>

Init == Fresh("load", 1)

\* lines 69-73: pipeline(...) returns, or raises and summarizer = None
LoadSummarizer ==
    /\ pc = "load"
    /\ \E s \in {"loaded", "none"} : summarizer' = s
    /\ pc' = "upload"
    /\ UNCHANGED <<run, pdf_file, image_file, button, disk_ok, text, chunks,
                   idx, summary, outcomes, main_summary, fake_taxes, gstins,
                   base64_pdf, log>>

\* lines 137-143: text = "" and the two uploaders
Upload ==
    /\ pc = "upload"
    /\ text' = <<>>
    /\ \E p \in {"none", "ok", "bad"} : pdf_file' = p
    /\ \E i \in {"none", "ok", "bad"} : image_file' = i
    /\ pc' = "extract"
    /\ UNCHANGED <<run, summarizer, button, disk_ok, chunks, idx, summary,
                   outcomes, main_summary, fake_taxes, gstins, base64_pdf,
                   log>>

\* lines 146-149 with extract_text_from_pdf (80-82): no handler around
\* fitz.open, so an unreadable PDF ends the run with the exception
ExtractPdf ==
    /\ pc = "extract"
    /\ pdf_file # "none"
    /\ log' = Append(log, Event("extract_pdf", 0))
    /\ IF pdf_file = "bad"
       THEN pc' = "aborted" /\ UNCHANGED text
       ELSE pc' = "process" /\ \E t \in RunTexts : text' = t
    /\ UNCHANGED <<run, summarizer, pdf_file, image_file, button, disk_ok,
                   chunks, idx, summary, outcomes, main_summary, fake_taxes,
                   gstins, base64_pdf>>

ExtractImage_IgnoringPdf ==
    /\ pc = "extract"
    /\ image_file # "none"
    /\ log' = Append(log, Event("extract_image", 0))
    /\ IF image_file = "bad"
       THEN text' = <<>>
       ELSE \E t \in RunTexts : text' = t
    /\ pc' = "process"
    /\ UNCHANGED <<run, summarizer, pdf_file, image_file, button, disk_ok,
                   chunks, idx, summary, outcomes, main_summary, fake_taxes,
                   gstins, base64_pdf>>

\* lines 151-155 with extract_text_from_image (84-90): any exception is
\* reported and "" returned
ExtractImage ==
    /\ pc = "extract"
    /\ pdf_file = "none"
    /\ image_file # "none"
    /\ log' = Append(log, Event("extract_image", 0))
    /\ IF image_file = "bad"
       THEN text' = <<>>
       ELSE \E t \in RunTexts : text' = t
    /\ pc' = "process"
    /\ UNCHANGED <<run, summarizer, pdf_file, image_file, button, disk_ok,
                   chunks, idx, summary, outcomes, main_summary, fake_taxes,
                   gstins, base64_pdf>>

\* lines 146-155 when nothing is uploaded
ExtractNothing ==
    /\ pc = "extract"
    /\ pdf_file = "none"
    /\ image_file = "none"
    /\ pc' = "process"
    /\ UNCHANGED <<run, summarizer, pdf_file, image_file, button, disk_ok,
                   text, chunks, idx, summary, outcomes, main_summary,
                   fake_taxes, gstins, base64_pdf, log>>

Process_NoTextGuard ==
    /\ pc = "process"
    /\ \E b \in BOOLEAN :
          /\ button' = b
          /\ pc' = IF b THEN "summarize" ELSE "footer"
    /\ UNCHANGED <<run, summarizer, pdf_file, image_file, disk_ok, text,
                   chunks, idx, summary, outcomes, main_summary, fake_taxes,
                   gstins, base64_pdf, log>>

\* lines 158-162: if text: ... if st.button(...):
Process ==
    /\ pc = "process"
    /\ IF text # <<>>
       THEN \E b \in BOOLEAN :
               /\ button' = b
               /\ pc' = IF b THEN "summarize" ELSE "footer"
       ELSE pc' = "footer" /\ UNCHANGED button
    /\ UNCHANGED <<run, summarizer, pdf_file, image_file, disk_ok, text,
                   chunks, idx, summary, outcomes, main_summary, fake_taxes,
                   gstins, base64_pdf, log>>

\* line 164 and generate_summary, lines 93-98
GenerateSummaryEnter ==
    /\ pc = "summarize"
    /\ log' = Append(log, Event("summarize", 0))
    /\ IF summarizer = "none"
       THEN /\ main_summary' = UNAVAILABLE
            /\ pc' = "tax"
            /\ UNCHANGED <<chunks, idx, summary, outcomes>>
       ELSE /\ chunks' = Chunks(text)
            /\ summary' = <<>>
            /\ idx' = 0
            /\ outcomes' = <<>>
            /\ pc' = "loop"
            /\ UNCHANGED main_summary
    /\ UNCHANGED <<run, summarizer, pdf_file, image_file, button, disk_ok,
                   text, fake_taxes, gstins, base64_pdf>>

\* generate_summary, lines 99-107: one iteration of the loop
SummarizeChunk ==
    /\ pc = "loop"
    /\ idx < Len(chunks)
    /\ idx' = idx + 1
    /\ log' = Append(log, Event("chunk", idx + 1))
    /\ IF Skipped(chunks[idx + 1])
       THEN /\ outcomes' = Append(outcomes, [kind |-> "skip", out |-> <<>>])
            /\ UNCHANGED summary
       ELSE \E r \in SummarizerResults :
               /\ outcomes' = Append(outcomes, r)
               /\ summary' = summary
                      \o (IF r.kind = "fail" THEN PLACEHOLDER ELSE r.out)
                      \o BLANK_LINE
    /\ UNCHANGED <<pc, run, summarizer, pdf_file, image_file, button,
                   disk_ok, text, chunks, main_summary, fake_taxes, gstins,
                   base64_pdf>>

\* generate_summary, line 108, assigned at line 164
GenerateSummaryReturn ==
    /\ pc = "loop"
    /\ idx = Len(chunks)
    /\ main_summary' = SummaryReturn(summary)
    /\ pc' = "tax"
    /\ UNCHANGED <<run, summarizer, pdf_file, image_file, button, disk_ok,
                   text, chunks, idx, summary, outcomes, fake_taxes, gstins,
                   base64_pdf, log>>

\* lines 177-181
ValidateTax ==
    /\ pc = "tax"
    /\ fake_taxes' = detect_fake_tax_rates(text)
    /\ log' = Append(log, Event("tax", 0))
    /\ pc' = "gstin"
    /\ UNCHANGED <<run, summarizer, pdf_file, image_file, button, disk_ok,
                   text, chunks, idx, summary, outcomes, main_summary,
                   gstins, base64_pdf>>

\* lines 183-186
ValidateGstin ==
    /\ pc = "gstin"
    /\ gstins' = check_gstin_validity(text)
    /\ log' = Append(log, Event("gstin", 0))
    /\ pc' = "render"
    /\ UNCHANGED <<run, summarizer, pdf_file, image_file, button, disk_ok,
                   text, chunks, idx, summary, outcomes, main_summary,
                   fake_taxes, base64_pdf>>

\* lines 191-193 with create_pdf (111-120): no handler around the call
RenderReport ==
    /\ pc = "render"
    /\ log' = Append(log, Event("render", 0))
    /\ \E d \in BOOLEAN :
          /\ disk_ok' = d
          /\ IF CreatePdfRaises(main_summary, d)
             THEN pc' = "aborted" /\ UNCHANGED base64_pdf
             ELSE pc' = "footer" /\ base64_pdf' = create_pdf(main_summary)
    /\ UNCHANGED <<run, summarizer, pdf_file, image_file, button, text,
                   chunks, idx, summary, outcomes, main_summary, fake_taxes,
                   gstins>>

\* lines 196-201
Footer ==
    /\ pc = "footer"
    /\ pc' = "done"
    /\ UNCHANGED <<run, summarizer, pdf_file, image_file, button, disk_ok,
                   text, chunks, idx, summary, outcomes, main_summary,
                   fake_taxes, gstins, base64_pdf, log>>

\* the next interaction: the script is executed again from the top
Rerun ==
    /\ pc \in {"done", "aborted"}
    /\ run < MaxRuns
    /\ summarizer' = "none"
    /\ pdf_file' = "none"
    /\ image_file' = "none"
    /\ button' = FALSE
    /\ disk_ok' = TRUE
    /\ text' = <<>>
    /\ chunks' = <<>>
    /\ idx' = 0
    /\ summary' = <<>>
    /\ outcomes' = <<>>
    /\ main_summary' = Unset
    /\ fake_taxes' = UnsetList
    /\ gstins' = UnsetList
    /\ base64_pdf' = UnsetList
    /\ log' = <<>>
    /\ run' = run + 1
    /\ pc' = "load"

Next ==
    \/ LoadSummarizer
    \/ Upload
    \/ ExtractPdf
    \/ ExtractImage
    \/ ExtractNothing
    \/ Process
    \/ GenerateSummaryEnter
    \/ SummarizeChunk
    \/ GenerateSummaryReturn
    \/ ValidateTax
    \/ ValidateGstin
    \/ RenderReport
    \/ Footer
    \/ Rerun

Spec == Init /\ [][Next]_vars

-----------------------------------------------------------------------------
(* The functions on their own *)

\* a call of f(t) in isolation: the script is at the call, t is its argument
\* (the script makes these calls on a non-empty text only)
AtCall(p, t, s) ==
    /\ pc = p
    /\ run = 1
    /\ summarizer = s
    /\ pdf_file = "ok"
    /\ image_file = "none"
    /\ button = TRUE
    /\ disk_ok = TRUE
    /\ text = t
    /\ chunks = <<>>
    /\ idx = 0
    /\ summary = <<>>
    /\ outcomes = <<>>
    /\ main_summary = Unset
    /\ fake_taxes = UnsetList
    /\ gstins = UnsetList
    /\ base64_pdf = UnsetList
    /\ log = <<>>

InitTax == \E t \in TaxTexts : AtCall("tax", t, "loaded")

SpecTax == InitTax /\ [][ValidateTax]_vars

InitGstin == \E t \in GstinTexts : AtCall("gstin", t, "loaded")

SpecGstin == InitGstin /\ [][ValidateGstin]_vars

InitChunk == \E t \in ChunkTexts : AtCall("summarize", t, "loaded")

SpecChunk == InitChunk /\ [][GenerateSummaryEnter]_vars

InitSummary ==
    \E t \in SummaryTexts, s \in {"loaded", "none"} : AtCall("summarize", t, s)

NextSummary ==
    \/ GenerateSummaryEnter
    \/ SummarizeChunk
    \/ GenerateSummaryReturn

SpecSummary == InitSummary /\ [][NextSummary]_vars

-----------------------------------------------------------------------------
(* Vocabulary of the properties *)

SetMin(S) == CHOOSE i \in S : \A j \in S : i <= j

SetMax(S) == CHOOSE i \in S : \A j \in S : j <= i

\* the elements of a finite set of integers in increasing order
RECURSIVE Ascending(_)
Ascending(S) ==
    IF S = {} THEN <<>> ELSE <<SetMin(S)>> \o Ascending(S \ {SetMin(S)})

\* pieces joined with sep between consecutive pieces
RECURSIVE Join(_, _)
Join(pieces, sep) ==
    IF pieces = <<>> THEN <<>>
    ELSE IF Len(pieces) = 1 THEN pieces[1]
    ELSE pieces[1] \o sep \o Join(Tail(pieces), sep)

\* s without its leading and trailing whitespace
Trimmed(s) ==
    LET keep == {i \in 1..Len(s) : s[i] \notin Whitespace} IN
    IF keep = {} THEN <<>> ELSE SubSeq(s, SetMin(keep), SetMax(keep))

HasEvent(stage) == \E i \in 1..Len(log) : log[i].stage = stage

TaxDone == fake_taxes # UnsetList

GstinDone == gstins # UnsetList

\* generate_summary has returned in a run whose summarizer is loaded
Returned == pc = "tax" /\ summarizer = "loaded"

Calls == {i \in 1..Len(outcomes) : outcomes[i].kind # "skip"}

Fails == {i \in 1..Len(outcomes) : outcomes[i].kind = "fail"}

LongEnough == {i \in 1..Len(chunks) : Len(Trimmed(chunks[i])) >= 30}

-----------------------------------------------------------------------------
(* C1: tax-rate validator *)

\* the percentages of t taken as whole tokens, in text order: one or two
\* digits and a percent sign, not glued to a preceding word character
PercentTokens(t) ==
    LET isTok(i, n) ==
            /\ ~WordAt(t, i - 1)
            /\ \A k \in i..(i + n - 1) : ClassAt(t, k, Digits)
            /\ ClassAt(t, i + n, {"%"})
        starts == {i \in 1..Len(t) : isTok(i, 1) \/ isTok(i, 2)}
        asc == Ascending(starts)
    IN [k \in 1..Len(asc) |->
           SubSeq(t, asc[k], IF isTok(asc[k], 1) THEN asc[k] + 1
                                                  ELSE asc[k] + 2)]

\* C1: detect_fake_tax_rates returns exactly the whole-token percentages of
\* the text that are outside the allow-list, in text order with duplicates;
\* the text "17%" yields ["17%"].
C1_FakeRatesAreTheOddTokens ==
    TaxDone =>
        /\ fake_taxes = SelectSeq(PercentTokens(text), NotValidRate)
        /\ text = <<"1","7","%">> => fake_taxes = << <<"1","7","%">> >>

-----------------------------------------------------------------------------
(* C2: tax-ID validator *)

\* the 15-character shape, the 13th character drawn from c13
HasShape(w, c13) ==
    /\ Len(w) = 15
    /\ \A k \in {1, 2, 8, 9, 10, 11} : w[k] \in Digits
    /\ \A k \in {3, 4, 5, 6, 7, 12} : w[k] \in Upper
    /\ w[13] \in c13
    /\ w[14] = "Z"
    /\ w[15] \in Digits \cup Upper

\* the whole-token substrings of t of that shape, in text order
ShapedTokens(t, c13) ==
    LET starts == {i \in 1..(Len(t) - 14) :
                      /\ HasShape(SubSeq(t, i, i + 14), c13)
                      /\ ~WordAt(t, i - 1)
                      /\ ~WordAt(t, i + 15)}
        asc == Ascending(starts)
    IN [k \in 1..Len(asc) |-> SubSeq(t, asc[k], asc[k] + 14)]

OrSentinel(found) == IF found = <<>> THEN <<SENTINEL>> ELSE found

\* C2 as stated: the 13th character may be any of 0-9 or A-Z.
C2_AnyAlnumThirteenth ==
    GstinDone => gstins = OrSentinel(ShapedTokens(text, Digits \cup Upper))

\* C2 amended: check_gstin_validity returns, in text order, all whole-token
\* substrings of the shape whose 13th character is one of 1-9 or A-Z (not
\* 0), or the one-element sentinel list when there is none; it is never
\* empty and "22AAAAA0000A1Z5" yields itself.
C2_GstinContract ==
    GstinDone =>
        /\ gstins = OrSentinel(ShapedTokens(text, (Digits \ {"0"}) \cup Upper))
        /\ gstins # <<>>
        /\ text = G1 => gstins = <<G1>>

\* two identifiers found in one text, next to a text with none
C2_Witness ==
    /\ GstinDone
    /\ Len(gstins) = 2
    /\ gstins[1] # gstins[2]

-----------------------------------------------------------------------------
(* C3: chunker *)

\* C3: ceil(min(L, 1200) / 400) chunks, chunk i is characters
\* [400*i, 400*(i+1)) of the text, each of length <= 400, and together they
\* are the first min(L, 1200) characters.
C3_ChunksPartitionThePrefix ==
    pc = "loop" =>
        LET L == Len(text)
            m == IF L < 1200 THEN L ELSE 1200
            n == (m + 399) \div 400
        IN /\ Len(chunks) = n
           /\ \A i \in 1..n :
                 /\ Len(chunks[i]) <= 400
                 /\ Len(chunks[i]) = (IF 400 * i <= L THEN 400
                                      ELSE L - 400 * (i - 1))
                 /\ \A j \in 1..Len(chunks[i]) :
                       chunks[i][j] = text[400 * (i - 1) + j]
           /\ Flatten(chunks) = SubSeq(text, 1, m)

\* a text longer than the cap has been chunked
C3_Witness ==
    /\ pc = "loop"
    /\ Len(text) > 1200
    /\ Len(chunks) = 3

-----------------------------------------------------------------------------
(* C4: extraction failure *)

\* the extractor of this run was handed a file it cannot read
ExtractionFailed ==
    /\ pc \notin {"load", "upload", "extract"}
    /\ \/ pdf_file = "bad"
       \/ pdf_file = "none" /\ image_file = "bad"

\* C4: an extraction failure, PDF or image, is recovered inside the
\* extractor: the text is empty, nothing propagates, the run goes on to its
\* end.
C4_ExtractionFailureRecovered ==
    ExtractionFailed => text = <<>> /\ pc # "aborted"

-----------------------------------------------------------------------------
(* C5: summarizer resilience *)

PlaceholderLines(n) == [k \in 1..n |-> PLACEHOLDER]

\* C5 as stated: with every call failing, the Summary is the placeholder
\* lines, one per chunk that was not skipped - whichever way lines are put
\* together.
C5_OnlyPlaceholderLines ==
    (Returned /\ Calls = Fails) =>
        LET n == Cardinality(LongEnough) IN
        main_summary \in { Join(PlaceholderLines(n), <<>>),
                           Join(PlaceholderLines(n), <<"\n">>),
                           Join(PlaceholderLines(n), BLANK_LINE),
                           Join(PlaceholderLines(n), BLANK_LINE) \o BLANK_LINE }

\* C5 amended: generate_summary never raises; every chunk whose trimmed
\* length is at least 30 gets its call whatever happened to the chunks
\* before it; with every call failing the Summary is the placeholder lines,
\* one per such chunk, separated by blank lines - and "No summary
\* generated." when there is no such chunk.
C5_PlaceholderLinesOrNoSummary ==
    /\ pc = "loop" => Calls = {i \in LongEnough : i <= idx}
    /\ Returned =>
          /\ Len(outcomes) = Len(chunks)
          /\ Calls = LongEnough
          /\ Calls = Fails =>
                main_summary =
                    (IF Fails = {} THEN NO_SUMMARY
                     ELSE Join(PlaceholderLines(Cardinality(Fails)),
                               BLANK_LINE))

\* two calls failed around a skipped chunk
C5_Witness ==
    /\ Returned
    /\ Len(outcomes) = 3
    /\ outcomes[1].kind = "fail"
    /\ outcomes[2].kind = "skip"
    /\ outcomes[3].kind = "fail"

-----------------------------------------------------------------------------
(* C6: summarizer unavailable *)

RunEnded == pc \in {"done", "aborted"}

\* C6: with summarizer = None, generate_summary makes no call and returns
\* the fixed message, and the two validators and the renderer still produce
\* their outputs in that run.
C6_UnavailableStillRenders ==
    (RunEnded /\ summarizer = "none" /\ button /\ disk_ok) =>
        /\ outcomes = <<>>
        /\ main_summary = UNAVAILABLE
        /\ TaxDone
        /\ GstinDone
        /\ base64_pdf # UnsetList

-----------------------------------------------------------------------------
(* C7: empty text *)

\* the extractor returned, and returned the empty text
ExtractedEmpty ==
    /\ pc \notin {"load", "upload", "extract"}
    /\ pdf_file # "bad"
    /\ pdf_file # "none" \/ image_file # "none"
    /\ text = <<>>

-----------------------------------------------------------------------------
(* C8: summary assembly *)

\* what chunk i contributed
Piece(i) ==
    IF outcomes[i].kind = "skip" THEN <<>>
    ELSE (IF outcomes[i].kind = "fail" THEN PLACEHOLDER ELSE outcomes[i].out)
             \o BLANK_LINE

Pieces == Flatten([i \in 1..Len(outcomes) |-> Piece(i)])

\* C8 as stated: the Summary is the outputs of the chunks of trimmed length
\* >= 30, in order, each followed by a blank line, and the placeholder when
\* every chunk is skipped.
C8_EachOutputThenBlankLine ==
    (Returned /\ Fails = {}) =>
        main_summary = (IF Calls = {} THEN NO_SUMMARY ELSE Pieces)

\* C8 amended: exactly the chunks of trimmed length >= 30 are passed to the
\* summarizer; the Summary is their outputs (the placeholder line for a
\* failed call), in chunk order, each followed by a blank line, the whole
\* then stripped of leading and trailing whitespace - so nothing follows
\* the last output - and it is "No summary generated." when that is empty,
\* as when every chunk is skipped.
C8_StrippedOutputsInOrder ==
    Returned =>
        /\ Calls = LongEnough
        /\ main_summary =
              (IF Trimmed(Pieces) = <<>> THEN NO_SUMMARY ELSE Trimmed(Pieces))
        /\ Calls = {} => main_summary = NO_SUMMARY

\* two different outputs around a skipped chunk
C8_Witness ==
    /\ Returned
    /\ Len(outcomes) = 3
    /\ outcomes[1].kind = "ok"
    /\ outcomes[2].kind = "skip"
    /\ outcomes[3].kind = "ok"
    /\ outcomes[1].out # outcomes[3].out

-----------------------------------------------------------------------------
(* C9: no failure aborts a run *)

\* C9: a run on a non-empty text in which generation was triggered never
\* aborts and ends with all five outputs exposed.
C9_TriggeredRunCompletes ==
    (RunEnded /\ text # <<>> /\ button) =>
        /\ pc = "done"
        /\ main_summary # Unset
        /\ TaxDone
        /\ GstinDone
        /\ base64_pdf # UnsetList

-----------------------------------------------------------------------------
(* C10: order of the stages *)

Rank(e) ==
    IF e.stage \in {"extract_pdf", "extract_image"} THEN 1
    ELSE IF e.stage = "summarize" THEN 2
    ELSE IF e.stage = "chunk" THEN 2 + e.n
    ELSE IF e.stage = "tax" THEN 1000
    ELSE IF e.stage = "gstin" THEN 1001
    ELSE 1002

\* C10: the stages run in the order extract, summarize (chunk by chunk),
\* tax-rate validate, tax-ID validate, render, each at most once; the PDF
\* extractor runs whenever a PDF is uploaded and the image extractor only
\* when none is; nothing after extraction runs unless the text is non-empty
\* and the button was pressed in this run; the report is rendered from the
\* Summary this run's generate_summary returned; a run starts with nothing
\* of an earlier run.
C10_StagesInOrder ==
    /\ \A i, j \in 1..Len(log) : i < j => Rank(log[i]) < Rank(log[j])
    /\ \A i \in 1..Len(log) :
          log[i].stage = "chunk" =>
              /\ i > 1
              /\ log[i - 1] = (IF log[i].n = 1 THEN Event("summarize", 0)
                               ELSE Event("chunk", log[i].n - 1))
    /\ pc \notin {"load", "upload", "extract"} =>
          (pdf_file # "none" <=> HasEvent("extract_pdf"))
    /\ HasEvent("extract_image") => pdf_file = "none" /\ image_file # "none"
    /\ (\E i \in 1..Len(log) : Rank(log[i]) > 1) => text # <<>> /\ button
    /\ main_summary # Unset <=>
          (HasEvent("summarize") /\ pc \notin {"summarize", "loop"})
    /\ (main_summary # Unset /\ summarizer = "loaded") =>
          main_summary =
              (IF Trimmed(Pieces) = <<>> THEN NO_SUMMARY ELSE Trimmed(Pieces))
    /\ TaxDone <=> HasEvent("tax")
    /\ GstinDone <=> HasEvent("gstin")
    /\ base64_pdf # UnsetList =>
          /\ HasEvent("render")
          /\ Join(base64_pdf, <<"\n">>) = main_summary
          /\ \A k \in 1..Len(base64_pdf) :
                \A c \in 1..Len(base64_pdf[k]) : base64_pdf[k][c] # "\n"
    /\ pc = "load" =>
          /\ log = <<>>
          /\ main_summary = Unset
          /\ ~TaxDone
          /\ ~GstinDone
          /\ base64_pdf = UnsetList

\* a second run rendered the report of a three-chunk text
C10_Witness ==
    /\ run = 2
    /\ pc = "done"
    /\ Len(log) = 8
    /\ Len(base64_pdf) > 1

=============================================================================
